---- MODULE Spec2Model ----
(***************************************************************************)
(* Model of the collaborative-notes broker (src/api/index.js): the rooms   *)
(* Map, the socket.io broadcast groups the handlers subscribe sockets to,  *)
(* the seven socket event handlers, the connection callback and the        *)
(* periodic cleanup.  Each handler runs to completion as one action.       *)
(***************************************************************************)
EXTENDS Integers, Sequences, FiniteSets, TLC

\* Room ids a client may name in a payload, and the socket ids of the
\* connections that may ever connect.  A room id is any string the client
\* chooses: "s3" is the case of a room id that is also a socket id (an
\* ordinary room id for as long as socket s3 is not connected).
PlainRoomIds == {"r1"}
Conns == {"s1", "s2", "s3"}
RoomIds == PlainRoomIds \cup {"s3"}

\* Values a note_change payload may carry as content; Undefined is the
\* payload without a content field.
Undefined == "undefined"
Contents == {"x=1", Undefined}

\* Chat payloads.
Msgs == {"m1", "m2"}

\* Length the chat history is cut back to (100 in the program, scaled).
CAP == 2

\* Client events, cleanup runs and clock ticks explored in one behaviour
\* (connections are not counted: each socket connects at most once).
MaxSteps == 4

\* Clock ticks explored and the retention window of the cleanup in ticks
\* (one hour in the program, scaled).
MaxTime == 2
Retention == 1

DefaultContent == "welcome"

VARIABLES
  status,    \* status[c]: "new" (never connected), "open", "closed"
  rooms,     \* the rooms Map: its entries in insertion order
  subs,      \* subs[r]: sockets in socket.io's broadcast group r
  now,       \* the clock
  last,      \* the event handled last and the emissions it made
  chatLog,   \* history: messages appended to room r since it was created
  joiners,   \* history: who joined room r since it was created, or Disturbed
  steps,     \* client events, cleanup runs and ticks so far
  lost,      \* history: the room last deleted under r held edits or chat
  recording, \* whether the writes to the sockets are recorded in inbox
  inbox      \* inbox[c]: what was written to socket c, oldest first

vars == <<status, rooms, subs, now, last, chatLog, joiners, steps, lost,
          recording, inbox>>

Disturbed == {"left"}

----------------------------------------------------------------------------
\* Sequence helpers (Array.prototype.includes / filter / slice)

Includes(s, x) == \E i \in 1..Len(s) : s[i] = x

FilterNone(s, x) == s

Filter(s, x) == SelectSeq(s, LAMBDA y : y # x)

Elems(s) == {s[i] : i \in 1..Len(s)}

\* s.slice(-n)
SliceLast(s, n) == IF Len(s) <= n THEN s ELSE SubSeq(s, Len(s) - n + 1, Len(s))

----------------------------------------------------------------------------
\* The rooms Map

Has(r) == \E i \in 1..Len(rooms) : rooms[i].id = r

Idx(rs, r) == CHOOSE i \in 1..Len(rs) : rs[i].id = r

NewRoom(r) ==
  [id |-> r, users |-> <<>>, content |-> DefaultContent,
   chatHistory |-> <<>>, createdAt |-> now]

Delete(rs, r) == SelectSeq(rs, LAMBDA e : e.id # r)

\* JavaScript truthiness of room.content
Truthy(content) == content # "" /\ content # Undefined

----------------------------------------------------------------------------
\* Emissions: an event and the set of sockets it is delivered to

Emit(to, ev) == [to |-> to, ev |-> ev]

\* socket.to(r): the broadcast group of r without the sending socket
OthersIn(group, r, c) == group[r] \ {c}

\* io.to(r): the whole broadcast group of r
AllIn(group, r) == group[r]

\* room.users.includes(socket.id) for the room stored under r, if any
IsMember(rs, r, c) ==
  \E i \in 1..Len(rs) : rs[i].id = r /\ Includes(rs[i].users, c)

\* The record of a handled event: its name, the socket it came from, its
\* payload, whether the socket was in the room's users when it arrived, and
\* the emissions made, in program order.
Event(op, c, r, arg, out) ==
  [op |-> op, conn |-> c, room |-> r, arg |-> arg,
   member |-> IsMember(rooms, r, c), out |-> out]

Quiet(op, c, r, arg) == Event(op, c, r, arg, << >>)

RECURSIVE WrittenNewestFirst(_, _, _)
WrittenNewestFirst(box, out, n) ==
  IF out = << >> THEN box
  ELSE WrittenNewestFirst(
         [c \in Conns |->
            IF c \in Head(out).to
            THEN << [seq |-> n, type |-> Head(out).ev.type] >> \o box[c]
            ELSE box[c]],
         Tail(out), n)

\* The emissions of out, written in order to the sockets they are for; each
\* is stamped with the number n of the event whose handler made it.
RECURSIVE Written(_, _, _)
Written(box, out, n) ==
  IF out = << >> THEN box
  ELSE Written([c \in Conns |->
                  IF c \in Head(out).to
                  THEN Append(box[c], [seq |-> n, type |-> Head(out).ev.type])
                  ELSE box[c]],
               Tail(out), n)

\* every emit of a handler is written before the handler returns
Flush ==
  /\ inbox' = IF recording THEN Written(inbox, last'.out, steps') ELSE inbox
  /\ UNCHANGED recording

\* History bookkeeping: what a deleted room held
Bury ==
  lost' = [r \in RoomIds |->
             IF Has(r) /\ ~(\E i \in 1..Len(rooms') : rooms'[i].id = r)
             THEN LET room == rooms[Idx(rooms, r)]
                  IN  room.content # DefaultContent \/ room.chatHistory # << >>
             ELSE lost[r]]

----------------------------------------------------------------------------
Start(rec) ==
  /\ status = [c \in Conns |-> "new"]
  /\ rooms = <<>>
  /\ subs = [r \in RoomIds |-> {}]
  /\ now = 0
  /\ last = [op |-> "init", conn |-> "none", room |-> "none", arg |-> "none",
             member |-> FALSE, out |-> << >>]
  /\ chatLog = [r \in RoomIds |-> <<>>]
  /\ joiners = [r \in RoomIds |-> {}]
  /\ steps = 0
  /\ lost = [r \in RoomIds |-> FALSE]
  /\ recording = rec
  /\ inbox = [c \in Conns |-> << >>]

Init == Start(FALSE)

InitRecorded == Start(TRUE)

\* io.on("connection"): socket.io puts the new socket in the group named by
\* its own id.
Connect(c) ==
  /\ status[c] = "new"
  /\ status' = [status EXCEPT ![c] = "open"]
  /\ subs' = [r \in RoomIds |-> IF r = c THEN subs[r] \cup {c} ELSE subs[r]]
  /\ last' = Quiet("connection", c, "none", "none")
  /\ UNCHANGED <<rooms, now, chatLog, joiners, steps, lost, recording, inbox>>

----------------------------------------------------------------------------
\* History bookkeeping (not program state)

Step == steps < MaxSteps /\ steps' = steps + 1

JoinersAfterJoin(r, c) ==
  IF ~Has(r) THEN {c}
  ELSE IF joiners[r] = Disturbed THEN Disturbed
  ELSE joiners[r] \cup {c}

----------------------------------------------------------------------------
\* socket.on("join_room")

\* Mutant: the push without the includes test.
AddUserUnchecked(users, c) == Append(users, c)

\* if (!room.users.includes(socket.id)) room.users.push(socket.id)
AddUser(users, c) == IF Includes(users, c) THEN users ELSE Append(users, c)

\* if (!rooms.has(roomId)) rooms.set(roomId, {...})
GetOrCreate(rs, r) ==
  IF \E i \in 1..Len(rs) : rs[i].id = r THEN rs ELSE Append(rs, NewRoom(r))

\* Mutant: user_joined through io.to(roomId) in place of socket.to(roomId).
JoinOutToAll(group, room, c) ==
  << Emit({c}, [type |-> "room_joined", roomId |-> room.id, users |-> room.users,
                content |-> room.content, chatHistory |-> room.chatHistory]),
     Emit(AllIn(group, room.id),
          [type |-> "user_joined", socketId |-> c, users |-> room.users]) >>
  \o (IF Truthy(room.content)
      THEN << Emit({c}, [type |-> "note_update", content |-> room.content,
                         sender |-> "system"]) >>
      ELSE << >>)

\* the three emits of the join handler, in program order
JoinOut(group, room, c) ==
  << Emit({c}, [type |-> "room_joined", roomId |-> room.id, users |-> room.users,
                content |-> room.content, chatHistory |-> room.chatHistory]),
     Emit(OthersIn(group, room.id, c),
          [type |-> "user_joined", socketId |-> c, users |-> room.users]) >>
  \o (IF Truthy(room.content)
      THEN << Emit({c}, [type |-> "note_update", content |-> room.content,
                         sender |-> "system"]) >>
      ELSE << >>)

JoinRoom(c, r) ==
  /\ status[c] = "open"
  /\ Step
  /\ LET group == [subs EXCEPT ![r] = @ \cup {c}]
         rs1   == GetOrCreate(rooms, r)
         i     == Idx(rs1, r)
         rs2   == [rs1 EXCEPT ![i].users = AddUser(@, c)]
     IN  /\ subs' = group
         /\ rooms' = rs2
         /\ last' = Event("join_room", c, r, "none",
                     JoinOut(group, rs2[i], c))
  /\ joiners' = [joiners EXCEPT ![r] = JoinersAfterJoin(r, c)]
  /\ chatLog' = [chatLog EXCEPT ![r] = IF Has(r) THEN @ ELSE << >>]
  /\ UNCHANGED <<status, now, lost>>
  /\ Flush

----------------------------------------------------------------------------
\* socket.on("note_change") and socket.on("chat_message")

\* Mutant: the guard without its membership test.
NoteAcceptedAnyone(rs, r, c) == \E i \in 1..Len(rs) : rs[i].id = r

\* the guard the handler starts with, negated:
\* !(!room || !room.users.includes(socket.id))
NoteAccepted(rs, r, c) ==
  \E i \in 1..Len(rs) : rs[i].id = r /\ Includes(rs[i].users, c)

\* Mutant: io.to(roomId) in place of socket.to(roomId).
NoteOutToAll(group, r, c, content) ==
  << Emit(AllIn(group, r),
          [type |-> "note_update", content |-> content, sender |-> c]) >>

NoteOut(group, r, c, content) ==
  << Emit(OthersIn(group, r, c),
          [type |-> "note_update", content |-> content, sender |-> c]) >>

NoteChange(c, r, content) ==
  /\ status[c] = "open"
  /\ Step
  /\ IF NoteAccepted(rooms, r, c)
     THEN /\ rooms' = [rooms EXCEPT ![Idx(rooms, r)].content = content]
          /\ last' = Event("note_change", c, r, content,
                     NoteOut(subs, r, c, content))
     ELSE /\ rooms' = rooms
          /\ last' = Quiet("note_change", c, r, content)
  /\ UNCHANGED <<status, subs, now, chatLog, joiners, lost>>
  /\ Flush

\* Mutant: the guard without its membership test.
ChatAcceptedAnyone(rs, r, c) == \E i \in 1..Len(rs) : rs[i].id = r

\* the same guard, as the chat handler repeats it
ChatAccepted(rs, r, c) ==
  \E i \in 1..Len(rs) : rs[i].id = r /\ Includes(rs[i].users, c)

\* Mutant: the push without the cut.
PushChatUncut(history, m) == Append(history, m)

\* Mutant: slice(0, 100) in place of slice(-100).
PushChatKeepOldest(history, m) ==
  LET h == Append(history, m)
  IN  IF Len(h) > CAP THEN SubSeq(h, 1, CAP) ELSE h

\* push(message); if (length > 100) chatHistory = chatHistory.slice(-100)
PushChat(history, m) ==
  LET h == Append(history, m)
  IN  IF Len(h) > CAP THEN SliceLast(h, CAP) ELSE h

ChatOut(group, r, m) ==
  << Emit(AllIn(group, r), [type |-> "chat_message", message |-> m]) >>

ChatMessage(c, r, m) ==
  /\ status[c] = "open"
  /\ Step
  /\ IF ChatAccepted(rooms, r, c)
     THEN /\ rooms' = [rooms EXCEPT ![Idx(rooms, r)].chatHistory = PushChat(@, m)]
          /\ chatLog' = [chatLog EXCEPT ![r] = Append(@, m)]
          /\ last' = Event("chat_message", c, r, m,
                     ChatOut(subs, r, m))
     ELSE /\ rooms' = rooms
          /\ chatLog' = chatLog
          /\ last' = Quiet("chat_message", c, r, m)
  /\ UNCHANGED <<status, subs, now, joiners, lost>>
  /\ Flush

----------------------------------------------------------------------------
\* socket.on("leave_room") and socket.on("disconnect")

LeftOut(group, r, c, users) ==
  << Emit(OthersIn(group, r, c),
          [type |-> "user_left", socketId |-> c, users |-> users]) >>

\* Mutant: the empty room is kept.
DropNever(rs, r) == rs

\* if (room.users.length === 0) rooms.delete(roomId)
DropIfEmpty(rs, r) ==
  IF Len(rs[Idx(rs, r)].users) = 0 THEN Delete(rs, r) ELSE rs

LeaveRoom(c, r) ==
  /\ status[c] = "open"
  /\ Step
  /\ LET group == [subs EXCEPT ![r] = @ \ {c}]
     IN  /\ subs' = group
         /\ IF Has(r)
            THEN LET i   == Idx(rooms, r)
                     rs1 == [rooms EXCEPT ![i].users = Filter(@, c)]
                 IN  /\ rooms' = DropIfEmpty(rs1, r)
                     /\ last' = Event("leave_room", c, r, "none",
                                       LeftOut(group, r, c, rs1[i].users))
                     /\ joiners' = [joiners EXCEPT ![r] = Disturbed]
            ELSE /\ rooms' = rooms
                 /\ last' = Quiet("leave_room", c, r, "none")
                 /\ joiners' = joiners
  /\ UNCHANGED <<status, now, chatLog>>
  /\ Bury
  /\ Flush

\* for (const [roomId, room] of rooms.entries()) { ... }: the entries from
\* position i on, in insertion order; a deleted entry is skipped over.
RECURSIVE DisconnectRooms(_, _, _)
DisconnectRooms(rs, i, c) ==
  IF i > Len(rs) THEN rs
  ELSE IF Includes(rs[i].users, c)
       THEN LET rs1 == [rs EXCEPT ![i].users = Filter(@, c)]
            IN  IF Len(rs1[i].users) = 0
                THEN DisconnectRooms(Delete(rs1, rs1[i].id), i, c)
                ELSE DisconnectRooms(rs1, i + 1, c)
       ELSE DisconnectRooms(rs, i + 1, c)

RECURSIVE DisconnectOut(_, _, _, _)
DisconnectOut(group, rs, i, c) ==
  IF i > Len(rs) THEN << >>
  ELSE IF Includes(rs[i].users, c)
       THEN LeftOut(group, rs[i].id, c, Filter(rs[i].users, c))
            \o DisconnectOut(group, rs, i + 1, c)
       ELSE DisconnectOut(group, rs, i + 1, c)

\* socket.io has taken the socket out of every broadcast group by the time
\* the "disconnect" handler runs.
Disconnect(c) ==
  /\ status[c] = "open"
  /\ Step
  /\ status' = [status EXCEPT ![c] = "closed"]
  /\ LET group == [r \in RoomIds |-> subs[r] \ {c}]
     IN  /\ subs' = group
         /\ rooms' = DisconnectRooms(rooms, 1, c)
         /\ last' = Event("disconnect", c, "none", "none",
                     DisconnectOut(group, rooms, 1, c))
  /\ joiners' = [r \in RoomIds |->
                   IF IsMember(rooms, r, c) THEN Disturbed ELSE joiners[r]]
  /\ UNCHANGED <<now, chatLog>>
  /\ Bury
  /\ Flush

----------------------------------------------------------------------------
\* socket.on("typing_start") and socket.on("typing_stop")

TypingOutFromUsersOnly(group, r, c, typing) ==
  IF IsMember(rooms, r, c)
  THEN << Emit(OthersIn(group, r, c),
               [type |-> "user_typing", socketId |-> c, typing |-> typing]) >>
  ELSE << >>

TypingOut(group, r, c, typing) ==
  << Emit(OthersIn(group, r, c),
          [type |-> "user_typing", socketId |-> c, typing |-> typing]) >>

TypingStart(c, r) ==
  /\ status[c] = "open"
  /\ Step
  /\ last' = Event("typing_start", c, r, "none",
                     TypingOut(subs, r, c, TRUE))
  /\ UNCHANGED <<status, rooms, subs, now, chatLog, joiners, lost>>
  /\ Flush

TypingStop(c, r) ==
  /\ status[c] = "open"
  /\ Step
  /\ last' = Event("typing_stop", c, r, "none",
                     TypingOut(subs, r, c, FALSE))
  /\ UNCHANGED <<status, rooms, subs, now, chatLog, joiners, lost>>
  /\ Flush

----------------------------------------------------------------------------
\* setInterval cleanup, and the passage of time

StaleWithUsers(room, t) == room.createdAt < t - Retention

\* room.users.length === 0 && room.createdAt < oneHourAgo
Stale(room, t) == Len(room.users) = 0 /\ room.createdAt < t - Retention

Cleanup ==
  /\ Step
  /\ rooms' = SelectSeq(rooms, LAMBDA e : ~Stale(e, now))
  /\ last' = Quiet("cleanup", "none", "none", "none")
  /\ UNCHANGED <<status, subs, now, chatLog, joiners, recording, inbox>>
  /\ Bury

Tick ==
  /\ Step
  /\ now < MaxTime
  /\ now' = now + 1
  /\ UNCHANGED <<status, rooms, subs, last, chatLog, joiners, lost, recording, inbox>>

----------------------------------------------------------------------------
Next ==
  \/ \E c \in Conns : Connect(c)
  \/ \E c \in Conns, r \in RoomIds : JoinRoom(c, r)
  \/ \E c \in Conns, r \in RoomIds, content \in Contents : NoteChange(c, r, content)
  \/ \E c \in Conns, r \in RoomIds, m \in Msgs : ChatMessage(c, r, m)
  \/ \E c \in Conns, r \in RoomIds : LeaveRoom(c, r)
  \/ \E c \in Conns : Disconnect(c)
  \/ \E c \in Conns, r \in RoomIds : TypingStart(c, r)
  \/ \E c \in Conns, r \in RoomIds : TypingStop(c, r)
  \/ Cleanup
  \/ Tick

Spec == Init /\ [][Next]_vars

\* The same program with the writes to the sockets recorded.
SpecRecorded == InitRecorded /\ [][Next]_vars

----------------------------------------------------------------------------
\* Vocabulary of the properties

\* the sockets some emission of out is delivered to
Recipients(out) == UNION {out[i].to : i \in 1..Len(out)}

\* the sockets an event of the given type is delivered to
RecipientsOf(out, type) ==
  UNION {out[i].to : i \in {j \in 1..Len(out) : out[j].ev.type = type}}

InStore(rs, r) == \E i \in 1..Len(rs) : rs[i].id = r

RoomOf(rs, r) == rs[CHOOSE i \in 1..Len(rs) : rs[i].id = r]

MemberOf(rs, r, c) ==
  InStore(rs, r) /\ \E k \in 1..Len(RoomOf(rs, r).users) : RoomOf(rs, r).users[k] = c

\* the step handled event op
Handled(op) == steps' = steps + 1 /\ last'.op = op

NoDuplicates(s) == \A i, j \in 1..Len(s) : s[i] = s[j] => i = j

----------------------------------------------------------------------------
\* C1: a note_change from a connection that is not in the room's users, or
\* for a room id that is not in the Map, leaves the whole rooms Map (and the
\* broadcast groups) unchanged and delivers no event to any connection.
C1_NoteChangeByNonMemberIsNoOp ==
  [][LET c == last'.conn  r == last'.room
     IN  (/\ Handled("note_change")
          /\ NoteChange(c, r, last'.arg)
          /\ ~MemberOf(rooms, r, c))
           => (rooms' = rooms /\ subs' = subs /\ Recipients(last'.out) = {})]_vars

\* C1 witness: a non-member's note_change was handled for a room that exists,
\* has members, and whose content differs from the content sent.
C1_Witness ==
  /\ last.op = "note_change" /\ ~last.member
  /\ InStore(rooms, last.room)
  /\ RoomOf(rooms, last.room).content # last.arg
  /\ subs[last.room] \ {last.conn} # {}

\* C2: no room's users holds a connection id twice, and a room that k
\* distinct connections joined since it was created, with no leave_room or
\* disconnect on it in between, has exactly k users.
C2_MembersAreDistinct ==
  \A i \in 1..Len(rooms) :
    /\ NoDuplicates(rooms[i].users)
    /\ joiners[rooms[i].id] # Disturbed
         => Len(rooms[i].users) = Cardinality(joiners[rooms[i].id])

\* C2 witness: every connection joined one room, one of them twice, and
\* nobody left: three users.
C2_Witness ==
  /\ last.op = "join_room" /\ last.member
  /\ joiners[last.room] = Conns
  /\ Len(RoomOf(rooms, last.room).users) = Cardinality(Conns)

\* C3 (as claimed): a join_room by a connection already in the room's users
\* leaves users unchanged and delivers no user_joined to the other members.
C3_RejoinIsSilent ==
  [][LET c == last'.conn  r == last'.room
     IN  (/\ Handled("join_room")
          /\ JoinRoom(c, r)
          /\ MemberOf(rooms, r, c))
           => /\ RoomOf(rooms', r).users = RoomOf(rooms, r).users
              /\ RecipientsOf(last'.out, "user_joined")
                   \cap Elems(RoomOf(rooms, r).users) = {}]_vars

\* C4 (as claimed): a leave_room for a room the connection is not in the
\* users of leaves the rooms Map unchanged and delivers no event to anyone.
C4_LeaveByNonMemberIsNoOp ==
  [][LET c == last'.conn  r == last'.room
     IN  (/\ Handled("leave_room")
          /\ LeaveRoom(c, r)
          /\ ~MemberOf(rooms, r, c))
           => (rooms' = rooms /\ Recipients(last'.out) = {})]_vars

\* what C5 says of room r once connection c has left it
KeptIffMembersRemain(c, r) ==
  LET old  == RoomOf(rooms, r)
      rest == SelectSeq(old.users, LAMBDA u : u # c)
  IN  /\ InStore(rooms', r) <=> rest # << >>
      /\ rest # << >> => RoomOf(rooms', r) = [old EXCEPT !.users = rest]

\* C5: right after a leave_room or disconnect, a room that had the
\* connection among its users is in the Map exactly if a user remains; if
\* one does, the room keeps its content, chat history and creation time and
\* its users are the earlier ones without the connection.
C5_RoomKeptIffMembersRemain ==
  [][LET c == last'.conn
     IN  /\ (Handled("leave_room") /\ LeaveRoom(c, last'.room)
               /\ MemberOf(rooms, last'.room, c))
              => KeptIffMembersRemain(c, last'.room)
         /\ (Handled("disconnect") /\ Disconnect(c))
              => \A r \in RoomIds :
                   MemberOf(rooms, r, c) => KeptIffMembersRemain(c, r)]_vars

\* C5 witness: a disconnect took the connection out of two rooms at once;
\* one became empty and is gone, the other is kept with the user that remains.
C5_Witness ==
  /\ last.op = "disconnect"
  /\ Len(last.out) = 2
  /\ Len(rooms) = 1
  /\ Len(rooms[1].users) = 1
  /\ ~MemberOf(rooms, rooms[1].id, last.conn)

\* what C6 says of a note_change with content x that room r accepted from c
ReachesExactlyTheOtherMembers(c, r, x) ==
  /\ RoomOf(rooms', r).content = x
  /\ \A i \in 1..Len(last'.out) :
       last'.out[i].ev = [type |-> "note_update", content |-> x, sender |-> c]
  /\ Recipients(last'.out) = Elems(RoomOf(rooms, r).users) \ {c}

\* C6 (as claimed): a note_change by a connection in the room's users sets
\* the room's content to the content sent and delivers
\* note_update{content, sender} to every other user of the room and to no
\* one else; nothing is delivered to the sender.
C6_NoteUpdateReachesExactlyTheOtherMembers ==
  [][LET c == last'.conn  r == last'.room
     IN  (/\ Handled("note_change")
          /\ NoteChange(c, r, last'.arg)
          /\ MemberOf(rooms, r, c))
           => ReachesExactlyTheOtherMembers(c, r, last'.arg)]_vars

\* C6 on the rooms whose id is no socket id: there the claim holds.
C6_OnPlainRoomIds ==
  [][LET c == last'.conn  r == last'.room
     IN  (/\ Handled("note_change")
          /\ NoteChange(c, r, last'.arg)
          /\ MemberOf(rooms, r, c)
          /\ r \in PlainRoomIds)
           => ReachesExactlyTheOtherMembers(c, r, last'.arg)]_vars

\* the emissions of out that deliver a note_update to c
NoteUpdatesTo(out, c) ==
  {i \in 1..Len(out) : out[i].ev.type = "note_update" /\ c \in out[i].to}

\* the note_update ev comes from a note_change the room accepted from
\* another connection, its sender
FromNoteChange(ev, c) ==
  /\ last'.op = "note_change" /\ last'.member
  /\ last'.conn # c
  /\ ev.sender = last'.conn
  /\ ev.content = last'.arg
  /\ RoomOf(rooms', last'.room).content = last'.arg

\* C7 (as claimed): every note_update delivered to a connection c comes from
\* a note_change accepted from another member, named as sender, of a room c
\* is a member of; no other event delivers a note_update.
C7_NoteUpdateOnlyFromNoteChange ==
  [][~Tick => \A c \in Conns : \A i \in NoteUpdatesTo(last'.out, c) :
       /\ FromNoteChange(last'.out[i].ev, c)
       /\ MemberOf(rooms, last'.room, c)]_vars

\* C7 (amended): every note_update delivered to a connection c either comes
\* from a note_change accepted from another connection, named as sender,
\* for a room whose broadcast group holds c (c is one of its users, or c's
\* socket id is the room id), or is the one join_room sends to the joiner
\* itself, with sender "system" and the room's non-empty content.
C7_NoteUpdateFromNoteChangeOrJoin ==
  [][~Tick => \A c \in Conns : \A i \in NoteUpdatesTo(last'.out, c) :
       LET ev == last'.out[i].ev
       IN  \/ /\ FromNoteChange(ev, c)
              /\ MemberOf(rooms, last'.room, c) \/ c = last'.room
           \/ /\ last'.op = "join_room"
              /\ last'.conn = c
              /\ last'.out[i].to = {c}
              /\ ev.sender = "system"
              /\ ev.content = RoomOf(rooms', last'.room).content
              /\ ev.content \notin {"", Undefined}]_vars

\* C7 witness: a connection joined a room whose content had been edited and
\* was sent a note_update from "system" carrying that content.
C7_Witness ==
  /\ last.op = "join_room"
  /\ \E i \in 1..Len(last.out) :
       /\ last.out[i].ev.type = "note_update"
       /\ last.out[i].ev.sender = "system"
       /\ last.out[i].ev.content = "x=1"
       /\ last.out[i].to = {last.conn}

\* C8: the chat history of every room in the Map has at most CAP entries.
C8_ChatHistoryBounded ==
  \A i \in 1..Len(rooms) : Len(rooms[i].chatHistory) <= CAP

\* C8 witness: more than CAP messages were appended to a room and its
\* history is full.
C8_Witness ==
  \E i \in 1..Len(rooms) :
    /\ Len(chatLog[rooms[i].id]) > CAP
    /\ Len(rooms[i].chatHistory) = CAP

\* the last min(Len(log), n) entries of log, in order
LastN(log, n) ==
  LET k == IF Len(log) < n THEN Len(log) ELSE n
  IN  [j \in 1..k |-> log[Len(log) - k + j]]

\* C9: the chat history of a room is the last min(n, CAP) of the n messages
\* appended to it since it was created, in the order they were appended.
C9_ChatHistoryIsLastCap ==
  \A i \in 1..Len(rooms) :
    rooms[i].chatHistory = LastN(chatLog[rooms[i].id], CAP)

\* C9 witness: CAP + 1 messages were appended to a room, the first unlike
\* the last, and the history is the last CAP of them.
C9_Witness ==
  \E i \in 1..Len(rooms) :
    LET log == chatLog[rooms[i].id]
    IN  /\ Len(log) = CAP + 1
        /\ log[1] # log[CAP + 1]
        /\ last.op = "chat_message" /\ last.member
        /\ rooms[i].chatHistory = SubSeq(log, 2, CAP + 1)

\* C10: a chat_message from a connection that is not in the room's users, or
\* for a room id that is not in the Map, leaves the whole rooms Map (and the
\* broadcast groups) unchanged and delivers no event to any connection.
C10_ChatByNonMemberIsNoOp ==
  [][LET c == last'.conn  r == last'.room
     IN  (/\ Handled("chat_message")
          /\ ChatMessage(c, r, last'.arg)
          /\ ~MemberOf(rooms, r, c))
           => (rooms' = rooms /\ subs' = subs /\ Recipients(last'.out) = {})]_vars

\* C10 witness: a non-member's chat_message was handled for a room that
\* exists and has users; its history does not hold the message.
C10_Witness ==
  /\ last.op = "chat_message" /\ ~last.member
  /\ InStore(rooms, last.room)
  /\ subs[last.room] \ {last.conn} # {}
  /\ \A k \in 1..Len(RoomOf(rooms, last.room).chatHistory) :
       RoomOf(rooms, last.room).chatHistory[k] # last.arg

\* what C11 says of a chat_message m that room r accepted from c
ReachesExactlyTheMembers(c, r, m) ==
  /\ last'.out # << >>
  /\ \A i \in 1..Len(last'.out) :
       last'.out[i].ev = [type |-> "chat_message", message |-> m]
  /\ Recipients(last'.out) = Elems(RoomOf(rooms, r).users)

\* C11 (as claimed): a chat_message by a connection in the room's users is
\* delivered to exactly the users of the room, the sender among them, and to
\* no connection that is not one of them.
C11_ChatReachesExactlyTheMembers ==
  [][LET c == last'.conn  r == last'.room
     IN  (/\ Handled("chat_message")
          /\ ChatMessage(c, r, last'.arg)
          /\ MemberOf(rooms, r, c))
           => ReachesExactlyTheMembers(c, r, last'.arg)]_vars

\* C11 on the rooms whose id is no socket id: there the claim holds.
C11_OnPlainRoomIds ==
  [][LET c == last'.conn  r == last'.room
     IN  (/\ Handled("chat_message")
          /\ ChatMessage(c, r, last'.arg)
          /\ MemberOf(rooms, r, c)
          /\ r \in PlainRoomIds)
           => ReachesExactlyTheMembers(c, r, last'.arg)]_vars

\* the room a join_room finds under r: the stored one, or the one it creates
RoomBeforeJoin(r) ==
  IF InStore(rooms, r) THEN RoomOf(rooms, r)
  ELSE [id |-> r, users |-> << >>, content |-> "welcome",
        chatHistory |-> << >>, createdAt |-> now]

\* the emissions of out that carry an event of the given type
EmissionsOf(out, type) == {i \in 1..Len(out) : out[i].ev.type = type}

\* C12: a join_room by a connection not in the room's users appends it to
\* users (of the stored room, or of a new room with the default content and
\* an empty chat history), delivers one room_joined, to the joiner only,
\* carrying the room id, the users after the join, the content and the chat
\* history, and delivers user_joined{socketId, users after the join} to
\* every user the room had before the join and not to the joiner.
C12_JoinSnapshotAndAnnouncement ==
  [][LET c == last'.conn  r == last'.room
     IN  (/\ Handled("join_room")
          /\ JoinRoom(c, r)
          /\ ~MemberOf(rooms, r, c))
           => LET before == RoomBeforeJoin(r)
                  after  == RoomOf(rooms', r)
                  out    == last'.out
              IN  /\ after = [before EXCEPT !.users = Append(@, c)]
                  /\ Cardinality(EmissionsOf(out, "room_joined")) = 1
                  /\ \A i \in EmissionsOf(out, "room_joined") :
                       /\ out[i].to = {c}
                       /\ out[i].ev = [type |-> "room_joined", roomId |-> r,
                                       users |-> after.users,
                                       content |-> before.content,
                                       chatHistory |-> before.chatHistory]
                  /\ EmissionsOf(out, "user_joined") # {}
                  /\ \A i \in EmissionsOf(out, "user_joined") :
                       out[i].ev = [type |-> "user_joined", socketId |-> c,
                                    users |-> after.users]
                  /\ Elems(before.users) \subseteq RecipientsOf(out, "user_joined")
                  /\ c \notin RecipientsOf(out, "user_joined")]_vars

\* C12 witness: a connection joined a room that had a user, an edited
\* content and a chat message.
C12_Witness ==
  /\ last.op = "join_room" /\ ~last.member
  /\ InStore(rooms, last.room)
  /\ LET room == RoomOf(rooms, last.room)
     IN  /\ Len(room.users) = 2
         /\ room.content = "x=1"
         /\ room.chatHistory # << >>
         /\ RecipientsOf(last.out, "user_joined") = {room.users[1]}

\* the users room r is left with once connection c is taken out
Remaining(r, c) == SelectSeq(RoomOf(rooms, r).users, LAMBDA u : u # c)

\* what C13 says of a disconnect of c, with the recipients of user_left
\* stated for the rooms of Rs
DisconnectLeavesEveryRoom(c, Rs) ==
  LET mine == {r \in RoomIds : MemberOf(rooms, r, c)}
  IN  /\ \A r \in RoomIds : ~MemberOf(rooms', r, c)
      /\ Len(last'.out) = Cardinality(mine)
      /\ \A r \in mine :
           /\ InStore(rooms', r) <=> Remaining(r, c) # << >>
           /\ \E i \in 1..Len(last'.out) :
                /\ last'.out[i].ev = [type |-> "user_left", socketId |-> c,
                                      users |-> Remaining(r, c)]
                /\ r \in Rs => last'.out[i].to = Elems(Remaining(r, c))
      /\ \A r \in RoomIds \ mine :
           /\ InStore(rooms', r) <=> InStore(rooms, r)
           /\ InStore(rooms, r) => RoomOf(rooms', r) = RoomOf(rooms, r)

\* C13 (as claimed): after a disconnect the connection is in the users of no
\* room; each room that held it delivers user_left{socketId, users left} to
\* exactly the users left and is deleted if none is left; the other rooms
\* are unchanged and nothing is emitted for them.
C13_DisconnectLeavesEveryRoom ==
  [][(Handled("disconnect") /\ Disconnect(last'.conn))
       => DisconnectLeavesEveryRoom(last'.conn, RoomIds)]_vars

\* C13 with the recipients stated only for the rooms whose id is no socket
\* id: there the claim holds.
C13_OnPlainRoomIds ==
  [][(Handled("disconnect") /\ Disconnect(last'.conn))
       => DisconnectLeavesEveryRoom(last'.conn, PlainRoomIds)]_vars

\* C14 (as claimed): the content of every room in the Map is a defined
\* string.
C14_ContentIsDefined ==
  \A i \in 1..Len(rooms) : rooms[i].content # Undefined

Expired(room) == room.createdAt + Retention < now

\* C16: a cleanup run deletes exactly the rooms that have no user and were
\* created before the current time minus the retention window; it deletes
\* no room that has a user, leaves every room it keeps as it was (and in
\* its place), and delivers nothing.
C16_CleanupDeletesExactlyEmptyExpired ==
  [][Handled("cleanup")
       => /\ \A r \in RoomIds :
               InStore(rooms, r) =>
                 /\ InStore(rooms', r) <=>
                      ~(RoomOf(rooms, r).users = << >> /\ Expired(RoomOf(rooms, r)))
                 /\ RoomOf(rooms, r).users # << >> => InStore(rooms', r)
                 /\ InStore(rooms', r) => RoomOf(rooms', r) = RoomOf(rooms, r)
          /\ \A r \in RoomIds : InStore(rooms', r) => InStore(rooms, r)
          /\ \A i, j \in 1..Len(rooms') :
               i < j => \E k, l \in 1..Len(rooms) :
                          k < l /\ rooms[k] = rooms'[i] /\ rooms[l] = rooms'[j]
          /\ last'.out = << >>
          /\ inbox' = inbox /\ subs' = subs]_vars

\* C16 witness: a cleanup ran over a room that was older than the retention
\* window and had a user, and kept it.
C16_Witness ==
  /\ last.op = "cleanup"
  /\ \E i \in 1..Len(rooms) : rooms[i].users # << >> /\ Expired(rooms[i])

\* what C17 says of a typing event of the named kind, carrying the flag
TypingIsForwarded(op, typing) ==
  Handled(op)
    => LET c == last'.conn
           r == last'.room
       IN  /\ rooms' = rooms
           /\ subs' = subs
           /\ Len(last'.out) = 1
           /\ last'.out[1].ev = [type |-> "user_typing", socketId |-> c,
                                 typing |-> typing]
           /\ last'.out[1].to = subs[r] \ {c}

\* C17: typing_start and typing_stop change no room and no broadcast group
\* and deliver user_typing{socketId: the sender, typing: true or false} to
\* every socket subscribed to the room other than the sender, whether or
\* not the sender is in the room's users.
C17_TypingIsForwardedUnchecked ==
  [][TypingIsForwarded("typing_start", TRUE)
       /\ TypingIsForwarded("typing_stop", FALSE)]_vars

\* C17 witness: the typing event of a connection that is not in the users
\* of r1 was delivered to the users of r1.
C17_Witness ==
  /\ last.op \in {"typing_start", "typing_stop"}
  /\ last.room = "r1"
  /\ ~MemberOf(rooms, "r1", last.conn)
  /\ InStore(rooms, "r1")
  /\ Recipients(last.out) = Elems(RoomOf(rooms, "r1").users)

\* C18: between events every room in the Map has at least one user, so the
\* cleanup test (no user and older than the retention window) holds of no
\* room and a cleanup run deletes nothing.
C18_NoEmptyRoomIsKept ==
  /\ [](\A i \in 1..Len(rooms) :
          /\ Len(rooms[i].users) >= 1
          /\ ~(rooms[i].users = << >> /\ Expired(rooms[i])))
  /\ [][Handled("cleanup") => rooms' = rooms]_vars

\* C18 witness: a cleanup ran after a room that had held edits or chat was
\* deleted on its last user's leaving.
C18_Witness ==
  /\ last.op = "cleanup"
  /\ \E r \in RoomIds : lost[r] /\ ~InStore(rooms, r)

\* C19: for every room id that is no socket id, the broadcast group of the
\* id is the set of the users of the room stored under it, and is empty
\* when no room is stored under it.
C19_GroupIsTheUsers ==
  \A r \in PlainRoomIds :
    subs[r] = IF InStore(rooms, r)
              THEN {RoomOf(rooms, r).users[k] : k \in 1..Len(RoomOf(rooms, r).users)}
              ELSE {}

\* C19 witness: a user of r1 left it while another stayed, and the group
\* of r1 is the one user left.
C19_Witness ==
  /\ last.op = "leave_room" /\ last.room = "r1" /\ last.member
  /\ InStore(rooms, "r1")
  /\ \E c \in Conns :
       /\ c # last.conn
       /\ RoomOf(rooms, "r1").users = << c >>
       /\ subs["r1"] = {c}

\* C20: a join_room for an id under which no room has a user (every user
\* of an earlier room has left or disconnected) yields a new room with the
\* default content, an empty chat history and the joiner as its only user,
\* and the room_joined delivered to the joiner carries exactly that,
\* whatever the room deleted under the id held.
C20_NothingSurvivesDeletion ==
  [][(Handled("join_room") /\ \A u \in Conns : ~MemberOf(rooms, last'.room, u))
       => LET c == last'.conn
              r == last'.room
          IN  /\ InStore(rooms', r)
              /\ RoomOf(rooms', r) = [id |-> r, users |-> << c >>,
                                      content |-> "welcome",
                                      chatHistory |-> << >>,
                                      createdAt |-> now]
              /\ \E i \in 1..Len(last'.out) :
                   /\ last'.out[i].to = {c}
                   /\ last'.out[i].ev = [type |-> "room_joined", roomId |-> r,
                                         users |-> << c >>,
                                         content |-> "welcome",
                                         chatHistory |-> << >>]
              /\ \A i \in EmissionsOf(last'.out, "room_joined") :
                   /\ last'.out[i].ev.content = "welcome"
                   /\ last'.out[i].ev.chatHistory = << >>
                   /\ last'.out[i].ev.users = << c >>]_vars

\* C20 witness: a connection joined under an id whose earlier room, deleted
\* since, held an edited content or chat messages, and got the defaults.
C20_Witness ==
  /\ last.op = "join_room"
  /\ lost[last.room]
  /\ InStore(rooms, last.room)
  /\ RoomOf(rooms, last.room).users = << last.conn >>
  /\ RoomOf(rooms, last.room).content = "welcome"
  /\ RoomOf(rooms, last.room).chatHistory = << >>

====
